---- MODULE Spec2Model ----
(***************************************************************************)
(* A model of sjtu::vector<T> (src/src/vector.hpp): a raw heap of buffers, *)
(* vector objects holding (data_, sz_, cap_), cursors as (owner, idx)      *)
(* values, one action per mutating operation and one operator per         *)
(* observer.  Operations of T (copy construction and copy assignment) may *)
(* throw: every mutating operation takes the position f of the operation  *)
(* of T that throws (-1: none) and oom (raw_alloc throws).                 *)
(***************************************************************************)
EXTENDS Integers, Sequences, FiniteSets, TLC

\* ---------------------------------------------------------------- bounds
MaxSize == 3        \* push_back / insert are only taken while sz_ < MaxSize
NumBufs == 3        \* addresses raw_alloc can hand out
SizeMod == 8        \* size_t arithmetic of a cursor's idx is modulo SizeMod
Values == {1, 2}    \* the values of T
Vecs == {"a", "b"}  \* the vector objects of the program
Steps == {-2, -1, 1, 2}     \* the int steps of cursor arithmetic

NULL == 0           \* nullptr
RAW == 0            \* an uninitialized (or destroyed) slot
NoVec == "null"     \* a cursor's owner == nullptr

Positions == 0..MaxSize

\* What goes wrong in a call: nothing, raw_alloc throws (oom), or the f-th
\* operation of T in the call throws (f counts from 0); an assignment of T
\* that throws has written its target (w) or not.  Every call performs its
\* copy constructions first and its assignments after them.
NoFault == [f |-> -1, oom |-> FALSE, w |-> FALSE]
CtorFaults(n) ==
  {NoFault, [f |-> -1, oom |-> TRUE, w |-> FALSE]}
    \cup {[f |-> k, oom |-> FALSE, w |-> FALSE] : k \in 0..(n - 1)}
AssignFaults(n, m) ==
  {[f |-> k, oom |-> FALSE, w |-> b] : k \in n..(n + m - 1), b \in BOOLEAN}
Faults(n, m) == CtorFaults(n) \cup AssignFaults(n, m)

\* ------------------------------------------------------------------ heap
\* A buffer is allocated (live) or not; a buffer that is not allocated tells
\* how it was released: properly ("no"), while it still held constructed
\* elements ("live_elements"), or when it was not allocated ("double_free").
FreeBuf == [live |-> FALSE, slots |-> <<>>, misuse |-> "no"]
BadFree(why) == [live |-> FALSE, slots |-> <<>>, misuse |-> why]

\* ::operator new: some address not in use (the least one); NULL if none
raw_alloc(h) ==
  IF \E b \in 1..NumBufs : ~h[b].live
  THEN CHOOSE b \in 1..NumBufs : ~h[b].live /\ \A c \in 1..(b - 1) : h[c].live
  ELSE NULL

NewBuf(h, b, n) ==
  [h EXCEPT ![b] = [live |-> TRUE, slots |-> [i \in 1..n |-> RAW], misuse |-> "no"]]

\* ::operator delete: a null pointer is ignored
raw_free(h, p) ==
  IF p = NULL THEN h
  ELSE IF ~h[p].live THEN [h EXCEPT ![p] = BadFree("double_free")]
  ELSE IF \E i \in 1..Len(h[p].slots) : h[p].slots[i] # RAW
  THEN [h EXCEPT ![p] = BadFree("live_elements")]
  ELSE [h EXCEPT ![p] = FreeBuf]

\* new (p + i) T(x), and p[i] = x: slot i of buffer p holds x afterwards
construct_at(h, p, i, x) == [h EXCEPT ![p].slots[i + 1] = x]
assign_at(h, p, i, x) == [h EXCEPT ![p].slots[i + 1] = x]
\* p[i].~T()
destroy_at(h, p, i) == [h EXCEPT ![p].slots[i + 1] = RAW]

Slot(h, p, i) == h[p].slots[i + 1]

\* for (j = lo; j < hi; ++j) p[j].~T();
RECURSIVE DestroyRange(_, _, _, _)
DestroyRange(h, p, lo, hi) ==
  IF lo >= hi THEN h ELSE DestroyRange(destroy_at(h, p, lo), p, lo + 1, hi)

\* for (; i < n; ++i) new (dst + i) T(src[i]);   (the n copies that succeed)
RECURSIVE CopyLoop(_, _, _, _, _)
CopyLoop(h, dst, src, i, n) ==
  IF i >= n THEN h
  ELSE CopyLoop(construct_at(h, dst, i, Slot(h, src, i)), dst, src, i + 1, n)

\* the fault position left after `used` operations of T went through
Rest(f, used) == IF f < 0 THEN f ELSE f - used

\* ---------------------------------------------------------------- vector
EmptyVec == [alive |-> TRUE, data |-> NULL, sz |-> 0, cap |-> 0]
NoObject == [alive |-> FALSE, data |-> NULL, sz |-> 0, cap |-> 0]

NoIt == [owner |-> NoVec, idx |-> 0]
iterator(o, i) == [owner |-> o, idx |-> i % SizeMod]
NoRef == [buf |-> NULL, idx |-> 0, val |-> RAW]
Ref(h, p, i) == [buf |-> p, idx |-> i, val |-> Slot(h, p, i)]

\* the outcome of a call: heap, the vector's fields, the exception (or "ok"),
\* whether the buffer was reallocated, the returned cursor
R(h, s, res, grew, it) == [h |-> h, s |-> s, res |-> res, grew |-> grew, it |-> it]

\* mutant: the buffer is grown to exactly the capacity needed
GrowCap_exact(ncap, need) == need

\* mutant: the capacity is doubled once (if instead of while)
GrowCap_once(ncap, need) == IF ncap < need THEN ncap * 2 ELSE ncap

\* while (ncap < need) ncap <<= 1;
RECURSIVE GrowCap(_, _)
GrowCap(ncap, need) == IF ncap < need THEN GrowCap(ncap * 2, need) ELSE ncap

\* mutant: the new buffer is adopted but cap_ keeps its old value
ensure_capacity_stale_cap(h, s, need, f, oom) ==
  IF need <= s.cap THEN [h |-> h, s |-> s, res |-> "ok", used |-> 0, grew |-> FALSE]
  ELSE
    LET ncap == GrowCap(IF s.cap # 0 THEN s.cap ELSE 1, need)
        nd == raw_alloc(h)
    IN IF oom \/ nd = NULL
       THEN [h |-> h, s |-> s, res |-> "bad_alloc", used |-> 0, grew |-> FALSE]
       ELSE
         LET i == IF f \in 0..(s.sz - 1) THEN f ELSE s.sz
             h1 == CopyLoop(NewBuf(h, nd, ncap), nd, s.data, 0, i)
         IN IF i < s.sz
            THEN [h |-> raw_free(DestroyRange(h1, nd, 0, i), nd), s |-> s,
                  res |-> "T_error", used |-> i + 1, grew |-> FALSE]
            ELSE [h |-> raw_free(DestroyRange(h1, s.data, 0, s.sz), s.data),
                  s |-> [s EXCEPT !.data = nd],
                  res |-> "ok", used |-> s.sz, grew |-> TRUE]

\* mutant: no try/catch around the copies, so a copy that throws leaves the
\* half-built new buffer allocated
ensure_capacity_no_catch(h, s, need, f, oom) ==
  IF need <= s.cap THEN [h |-> h, s |-> s, res |-> "ok", used |-> 0, grew |-> FALSE]
  ELSE
    LET ncap == GrowCap(IF s.cap # 0 THEN s.cap ELSE 1, need)
        nd == raw_alloc(h)
    IN IF oom \/ nd = NULL
       THEN [h |-> h, s |-> s, res |-> "bad_alloc", used |-> 0, grew |-> FALSE]
       ELSE
         LET i == IF f \in 0..(s.sz - 1) THEN f ELSE s.sz
             h1 == CopyLoop(NewBuf(h, nd, ncap), nd, s.data, 0, i)
         IN IF i < s.sz
            THEN [h |-> h1, s |-> s, res |-> "T_error", used |-> i + 1, grew |-> FALSE]
            ELSE [h |-> raw_free(DestroyRange(h1, s.data, 0, s.sz), s.data),
                  s |-> [s EXCEPT !.data = nd, !.cap = ncap],
                  res |-> "ok", used |-> s.sz, grew |-> TRUE]

\* mutant: the catch block releases the new buffer without destroying the
\* copies made so far
ensure_capacity_no_destroy(h, s, need, f, oom) ==
  IF need <= s.cap THEN [h |-> h, s |-> s, res |-> "ok", used |-> 0, grew |-> FALSE]
  ELSE
    LET ncap == GrowCap(IF s.cap # 0 THEN s.cap ELSE 1, need)
        nd == raw_alloc(h)
    IN IF oom \/ nd = NULL
       THEN [h |-> h, s |-> s, res |-> "bad_alloc", used |-> 0, grew |-> FALSE]
       ELSE
         LET i == IF f \in 0..(s.sz - 1) THEN f ELSE s.sz
             h1 == CopyLoop(NewBuf(h, nd, ncap), nd, s.data, 0, i)
         IN IF i < s.sz
            THEN [h |-> raw_free(h1, nd), s |-> s,
                  res |-> "T_error", used |-> i + 1, grew |-> FALSE]
            ELSE [h |-> raw_free(DestroyRange(h1, s.data, 0, s.sz), s.data),
                  s |-> [s EXCEPT !.data = nd, !.cap = ncap],
                  res |-> "ok", used |-> s.sz, grew |-> TRUE]

\* void ensure_capacity(size_t need)
ensure_capacity(h, s, need, f, oom) ==
  IF need <= s.cap THEN [h |-> h, s |-> s, res |-> "ok", used |-> 0, grew |-> FALSE]
  ELSE
    LET ncap == GrowCap(IF s.cap # 0 THEN s.cap ELSE 1, need)
        nd == raw_alloc(h)
    IN IF oom \/ nd = NULL
       THEN [h |-> h, s |-> s, res |-> "bad_alloc", used |-> 0, grew |-> FALSE]
       ELSE
         LET i == IF f \in 0..(s.sz - 1) THEN f ELSE s.sz
             h1 == CopyLoop(NewBuf(h, nd, ncap), nd, s.data, 0, i)
         IN IF i < s.sz
            THEN [h |-> raw_free(DestroyRange(h1, nd, 0, i), nd), s |-> s,
                  res |-> "T_error", used |-> i + 1, grew |-> FALSE]
            ELSE [h |-> raw_free(DestroyRange(h1, s.data, 0, s.sz), s.data),
                  s |-> [s EXCEPT !.data = nd, !.cap = ncap],
                  res |-> "ok", used |-> s.sz, grew |-> TRUE]

push_back(h, s, value, f, oom) ==
  LET ec == ensure_capacity(h, s, s.sz + 1, f, oom)
  IN IF ec.res # "ok" THEN R(ec.h, ec.s, ec.res, ec.grew, NoIt)
     ELSE IF Rest(f, ec.used) = 0 THEN R(ec.h, ec.s, "T_error", ec.grew, NoIt)
     ELSE R(construct_at(ec.h, ec.s.data, s.sz, value),
            [ec.s EXCEPT !.sz = s.sz + 1], "ok", ec.grew, NoIt)

pop_back(h, s) ==
  IF s.sz = 0 THEN R(h, s, "container_is_empty", FALSE, NoIt)
  ELSE R(destroy_at(h, s.data, s.sz - 1), [s EXCEPT !.sz = s.sz - 1], "ok", FALSE, NoIt)

\* mutant: clear gives the buffer back
clear_release(h, s) ==
  R(raw_free(DestroyRange(h, s.data, 0, s.sz), s.data),
    [s EXCEPT !.sz = 0, !.data = NULL, !.cap = 0], "ok", FALSE, NoIt)

\* void clear()
clear(h, s) == R(DestroyRange(h, s.data, 0, s.sz), [s EXCEPT !.sz = 0], "ok", FALSE, NoIt)

\* mutant: the shift stops one slot early (i > ind + 1)
RECURSIVE ShiftUp_short(_, _, _, _, _, _)
ShiftUp_short(h, d, i, ind, f, w) ==
  IF i <= ind + 1 THEN [h |-> h, threw |-> FALSE]
  ELSE IF f = 0
  THEN [h |-> IF w THEN assign_at(h, d, i, Slot(h, d, i - 1)) ELSE h, threw |-> TRUE]
  ELSE ShiftUp_short(assign_at(h, d, i, Slot(h, d, i - 1)), d, i - 1, ind, Rest(f, 1), w)

\* for (i = sz_ - 1; i > ind; --i) data_[i] = data_[i - 1];
\* an assignment of T that throws has written its target (w) or not
RECURSIVE ShiftUp(_, _, _, _, _, _)
ShiftUp(h, d, i, ind, f, w) ==
  IF i <= ind THEN [h |-> h, threw |-> FALSE]
  ELSE IF f = 0
  THEN [h |-> IF w THEN assign_at(h, d, i, Slot(h, d, i - 1)) ELSE h, threw |-> TRUE]
  ELSE ShiftUp(assign_at(h, d, i, Slot(h, d, i - 1)), d, i - 1, ind, Rest(f, 1), w)

\* mutant: insert returns end() instead of the cursor at ind
insert_returns_end(h, s, self, ind, value, f, oom, w) ==
  IF ind > s.sz THEN R(h, s, "index_out_of_bound", FALSE, NoIt)
  ELSE
    LET ec == ensure_capacity(h, s, s.sz + 1, f, oom)
        f1 == Rest(f, ec.used)
        d == ec.s.data
    IN IF ec.res # "ok" THEN R(ec.h, ec.s, ec.res, ec.grew, NoIt)
       ELSE IF ind = s.sz
       THEN IF f1 = 0 THEN R(ec.h, ec.s, "T_error", ec.grew, NoIt)
            ELSE R(construct_at(ec.h, d, s.sz, value), [ec.s EXCEPT !.sz = s.sz + 1],
                   "ok", ec.grew, iterator(self, s.sz + 1))
       ELSE IF f1 = 0 THEN R(ec.h, ec.s, "T_error", ec.grew, NoIt)
       ELSE
         LET h1 == construct_at(ec.h, d, s.sz, Slot(ec.h, d, s.sz - 1))
             lp == ShiftUp(h1, d, s.sz - 1, ind, Rest(f1, 1), w)
             f2 == Rest(f1, 1 + (s.sz - 1 - ind))
         IN IF lp.threw THEN R(lp.h, ec.s, "T_error", ec.grew, NoIt)
            ELSE IF f2 = 0
            THEN R(IF w THEN assign_at(lp.h, d, ind, value) ELSE lp.h, ec.s,
                   "T_error", ec.grew, NoIt)
            ELSE R(assign_at(lp.h, d, ind, value), [ec.s EXCEPT !.sz = s.sz + 1],
                   "ok", ec.grew, iterator(self, s.sz + 1))

\* iterator insert(const size_t &ind, const T &value)
insert(h, s, self, ind, value, f, oom, w) ==
  IF ind > s.sz THEN R(h, s, "index_out_of_bound", FALSE, NoIt)
  ELSE
    LET ec == ensure_capacity(h, s, s.sz + 1, f, oom)
        f1 == Rest(f, ec.used)
        d == ec.s.data
    IN IF ec.res # "ok" THEN R(ec.h, ec.s, ec.res, ec.grew, NoIt)
       ELSE IF ind = s.sz
       THEN IF f1 = 0 THEN R(ec.h, ec.s, "T_error", ec.grew, NoIt)
            ELSE R(construct_at(ec.h, d, s.sz, value), [ec.s EXCEPT !.sz = s.sz + 1],
                   "ok", ec.grew, iterator(self, ind))
       ELSE IF f1 = 0 THEN R(ec.h, ec.s, "T_error", ec.grew, NoIt)
       ELSE
         LET h1 == construct_at(ec.h, d, s.sz, Slot(ec.h, d, s.sz - 1))
             lp == ShiftUp(h1, d, s.sz - 1, ind, Rest(f1, 1), w)
             f2 == Rest(f1, 1 + (s.sz - 1 - ind))
         IN IF lp.threw THEN R(lp.h, ec.s, "T_error", ec.grew, NoIt)
            ELSE IF f2 = 0
            THEN R(IF w THEN assign_at(lp.h, d, ind, value) ELSE lp.h, ec.s,
                   "T_error", ec.grew, NoIt)
            ELSE R(assign_at(lp.h, d, ind, value), [ec.s EXCEPT !.sz = s.sz + 1],
                   "ok", ec.grew, iterator(self, ind))

\* mutant: insert(pos, v) refuses end() the way erase(pos) does
insert_it_strict(h, s, self, pos, value, f, oom, w) ==
  IF pos.owner # self \/ pos.idx >= s.sz THEN R(h, s, "invalid_iterator", FALSE, NoIt)
  ELSE insert(h, s, self, pos.idx, value, f, oom, w)

\* iterator insert(iterator pos, const T &value)
insert_it(h, s, self, pos, value, f, oom, w) ==
  IF pos.owner # self THEN R(h, s, "invalid_iterator", FALSE, NoIt)
  ELSE insert(h, s, self, pos.idx, value, f, oom, w)

\* for (i = ind; i + 1 < sz_; ++i) data_[i] = data_[i + 1];
RECURSIVE ShiftDown(_, _, _, _, _, _)
ShiftDown(h, d, i, sz, f, w) ==
  IF i + 1 >= sz THEN [h |-> h, threw |-> FALSE]
  ELSE IF f = 0
  THEN [h |-> IF w THEN assign_at(h, d, i, Slot(h, d, i + 1)) ELSE h, threw |-> TRUE]
  ELSE ShiftDown(assign_at(h, d, i, Slot(h, d, i + 1)), d, i + 1, sz, Rest(f, 1), w)

\* mutant: the shift starts one slot before ind
erase_from_before(h, s, self, pos, f, w) ==
  IF pos.owner # self \/ pos.idx >= s.sz THEN R(h, s, "invalid_iterator", FALSE, NoIt)
  ELSE
    LET ind == pos.idx
    IN IF ind = s.sz - 1
       THEN R(destroy_at(h, s.data, s.sz - 1), [s EXCEPT !.sz = s.sz - 1], "ok", FALSE,
              iterator(self, s.sz - 1))
       ELSE
         LET lp == ShiftDown(h, s.data, IF ind > 0 THEN ind - 1 ELSE ind, s.sz, f, w)
         IN IF lp.threw THEN R(lp.h, s, "T_error", FALSE, NoIt)
            ELSE R(destroy_at(lp.h, s.data, s.sz - 1), [s EXCEPT !.sz = s.sz - 1], "ok",
                   FALSE, iterator(self, ind))

\* mutant: erase(pos) checks the owner only, so end() erases the last element
erase_lax(h, s, self, pos, f, w) ==
  IF pos.owner # self \/ s.sz = 0 THEN R(h, s, "invalid_iterator", FALSE, NoIt)
  ELSE
    LET ind == pos.idx
    IN IF ind >= s.sz - 1
       THEN R(destroy_at(h, s.data, s.sz - 1), [s EXCEPT !.sz = s.sz - 1], "ok", FALSE,
              iterator(self, s.sz - 1))
       ELSE
         LET lp == ShiftDown(h, s.data, ind, s.sz, f, w)
         IN IF lp.threw THEN R(lp.h, s, "T_error", FALSE, NoIt)
            ELSE R(destroy_at(lp.h, s.data, s.sz - 1), [s EXCEPT !.sz = s.sz - 1], "ok",
                   FALSE, iterator(self, ind))

\* iterator erase(iterator pos)
erase(h, s, self, pos, f, w) ==
  IF pos.owner # self \/ pos.idx >= s.sz THEN R(h, s, "invalid_iterator", FALSE, NoIt)
  ELSE
    LET ind == pos.idx
    IN IF ind = s.sz - 1
       THEN R(destroy_at(h, s.data, s.sz - 1), [s EXCEPT !.sz = s.sz - 1], "ok", FALSE,
              iterator(self, s.sz - 1))
       ELSE
         LET lp == ShiftDown(h, s.data, ind, s.sz, f, w)
         IN IF lp.threw THEN R(lp.h, s, "T_error", FALSE, NoIt)
            ELSE R(destroy_at(lp.h, s.data, s.sz - 1), [s EXCEPT !.sz = s.sz - 1], "ok",
                   FALSE, iterator(self, ind))

\* iterator erase(const size_t &ind)
erase_ind(h, s, self, ind, f, w) ==
  IF ind >= s.sz THEN R(h, s, "index_out_of_bound", FALSE, NoIt)
  ELSE erase(h, s, self, iterator(self, ind), f, w)

\* mutant: the copy gets a buffer of the source's capacity
copy_construct_keeps_cap(h, other, f, oom) ==
  IF other.sz = 0 THEN R(h, EmptyVec, "ok", FALSE, NoIt)
  ELSE
    LET nd == raw_alloc(h)
    IN IF oom \/ nd = NULL THEN R(h, NoObject, "bad_alloc", FALSE, NoIt)
       ELSE
         LET i == IF f \in 0..(other.sz - 1) THEN f ELSE other.sz
             h1 == CopyLoop(NewBuf(h, nd, other.cap), nd, other.data, 0, i)
         IN IF i < other.sz
            THEN R(raw_free(DestroyRange(h1, nd, 0, i), nd), NoObject, "T_error", FALSE, NoIt)
            ELSE R(h1, [alive |-> TRUE, data |-> nd, sz |-> other.sz, cap |-> other.cap],
                   "ok", TRUE, NoIt)

\* mutant: the copy shares the source's buffer
copy_construct_shallow(h, other, f, oom) ==
  IF other.sz = 0 THEN R(h, EmptyVec, "ok", FALSE, NoIt)
  ELSE R(h, [alive |-> TRUE, data |-> other.data, sz |-> other.sz, cap |-> other.sz],
         "ok", FALSE, NoIt)

\* vector(const vector &other): s is the object under construction, which
\* exists afterwards only when res = "ok"
copy_construct(h, other, f, oom) ==
  IF other.sz = 0 THEN R(h, EmptyVec, "ok", FALSE, NoIt)
  ELSE
    LET nd == raw_alloc(h)
    IN IF oom \/ nd = NULL THEN R(h, NoObject, "bad_alloc", FALSE, NoIt)
       ELSE
         LET i == IF f \in 0..(other.sz - 1) THEN f ELSE other.sz
             h1 == CopyLoop(NewBuf(h, nd, other.sz), nd, other.data, 0, i)
         IN IF i < other.sz
            THEN R(raw_free(DestroyRange(h1, nd, 0, i), nd), NoObject, "T_error", FALSE, NoIt)
            ELSE R(h1, [alive |-> TRUE, data |-> nd, sz |-> other.sz, cap |-> other.sz],
                   "ok", TRUE, NoIt)

\* mutant: the destructor destroys the elements but keeps the buffer allocated
destroy_no_free(h, s) == clear(h, s).h

\* ~vector(): the heap afterwards
destroy(h, s) == raw_free(clear(h, s).h, s.data)

\* mutant: swap exchanges data_ and sz_ but not cap_
swap_keeps_cap(vs, a, b) ==
  LET td == vs[a].data
      v1 == [vs EXCEPT ![a].data = vs[b].data]
      v2 == [v1 EXCEPT ![b].data = td]
      ts == v2[a].sz
      v3 == [v2 EXCEPT ![a].sz = v2[b].sz]
  IN [v3 EXCEPT ![b].sz = ts]

\* void swap(vector &rhs): the fields are exchanged one by one through the
\* two references, which may name the same object
swap(vs, a, b) ==
  LET td == vs[a].data
      v1 == [vs EXCEPT ![a].data = vs[b].data]
      v2 == [v1 EXCEPT ![b].data = td]
      ts == v2[a].sz
      v3 == [v2 EXCEPT ![a].sz = v2[b].sz]
      v4 == [v3 EXCEPT ![b].sz = ts]
      tc == v4[a].cap
      v5 == [v4 EXCEPT ![a].cap = v4[b].cap]
  IN [v5 EXCEPT ![b].cap = tc]

\* mutant: operator= empties *this before it copies, so a copy that throws
\* leaves *this empty
copy_assign_clear_first(h, vs, self, other, f, oom) ==
  IF self = other THEN R(h, vs[self], "ok", FALSE, NoIt)
  ELSE
    LET cl == clear(h, vs[self])
        cc == copy_construct(cl.h, vs[other], f, oom)
    IN IF cc.res # "ok" THEN R(cc.h, cl.s, cc.res, FALSE, NoIt)
       ELSE R(raw_free(cc.h, cl.s.data), cc.s, "ok", cc.grew, NoIt)

\* vector &operator=(const vector &other): s is *this (named self) afterwards
copy_assign(h, vs, self, other, f, oom) ==
  IF self = other THEN R(h, vs[self], "ok", FALSE, NoIt)
  ELSE
    LET cc == copy_construct(h, vs[other], f, oom)
    IN IF cc.res # "ok" THEN R(cc.h, vs[self], cc.res, FALSE, NoIt)
       ELSE
         LET both == [x \in {"this", "tmp"} |-> IF x = "this" THEN vs[self] ELSE cc.s]
             sw == swap(both, "this", "tmp")
         IN R(destroy(cc.h, sw["tmp"]), sw["this"], "ok", cc.grew, NoIt)

\* mutant: at checks pos against cap_
at_cap(h, s, pos) ==
  IF pos >= s.cap THEN [res |-> "index_out_of_bound", ref |-> NoRef]
  ELSE [res |-> "ok", ref |-> Ref(h, s.data, pos)]

\* T &at(pos), T &operator[](pos), front(), back(): the exception, or the
\* slot the returned reference names
at(h, s, pos) ==
  IF pos >= s.sz THEN [res |-> "index_out_of_bound", ref |-> NoRef]
  ELSE [res |-> "ok", ref |-> Ref(h, s.data, pos)]

subscript(h, s, pos) ==
  IF pos >= s.sz THEN [res |-> "index_out_of_bound", ref |-> NoRef]
  ELSE [res |-> "ok", ref |-> Ref(h, s.data, pos)]

front(h, s) ==
  IF s.sz = 0 THEN [res |-> "container_is_empty", ref |-> NoRef]
  ELSE [res |-> "ok", ref |-> Ref(h, s.data, 0)]

back(h, s) ==
  IF s.sz = 0 THEN [res |-> "container_is_empty", ref |-> NoRef]
  ELSE [res |-> "ok", ref |-> Ref(h, s.data, s.sz - 1)]

begin(vs, self) == iterator(self, 0)
end(vs, self) == iterator(self, vs[self].sz)

\* iterator::operator+ / operator+= (n < 0: operator- / operator-=), on size_t
advance(it, n) == iterator(it.owner, it.idx + n + SizeMod)

\* mutant: operator* checks idx against the owner's cap_
deref_cap(h, vs, it) ==
  IF it.owner = NoVec THEN [res |-> "invalid_iterator", ref |-> NoRef]
  ELSE IF it.idx >= vs[it.owner].cap THEN [res |-> "invalid_iterator", ref |-> NoRef]
  ELSE [res |-> "ok", ref |-> Ref(h, vs[it.owner].data, it.idx)]

\* T &iterator::operator*() const, while the owner object exists
deref(h, vs, it) ==
  IF it.owner = NoVec THEN [res |-> "invalid_iterator", ref |-> NoRef]
  ELSE IF it.idx >= vs[it.owner].sz THEN [res |-> "invalid_iterator", ref |-> NoRef]
  ELSE [res |-> "ok", ref |-> Ref(h, vs[it.owner].data, it.idx)]

\* int iterator::operator-(const iterator &rhs) const
difference(it, rhs) ==
  IF it.owner # rhs.owner THEN [res |-> "invalid_iterator", n |-> 0]
  ELSE [res |-> "ok", n |-> it.idx - rhs.idx]

\* mutant: operator== compares idx only
equal_idx_only(it, rhs) == it.idx = rhs.idx

\* bool iterator::operator==(const iterator &rhs) const
equal(it, rhs) == it.owner = rhs.owner /\ it.idx = rhs.idx

\* ref = x, on the T & that at, operator[] or operator* returned
store(h, ref, x) == assign_at(h, ref.buf, ref.idx, x)

\* ----------------------------------------------------------------- state
VARIABLES heap, vec
vars == <<heap, vec>>

Init ==
  /\ heap = [b \in 1..NumBufs |-> FreeBuf]
  /\ vec = [v \in Vecs |-> IF v = "a" THEN EmptyVec ELSE NoObject]

Alive == {v \in Vecs : vec[v].alive}

\* the cursors handed to insert and erase: iterator(), v.begin() and v.end()
Cursors == {NoIt} \cup {begin(vec, v) : v \in Alive} \cup {end(vec, v) : v \in Alive}

\* Elements lost with their buffer leave no trace in the heap: a call's
\* outcome tells that it released live elements, the state after it does not.
Forget(h) ==
  [b \in 1..NumBufs |-> IF h[b].misuse = "live_elements" THEN FreeBuf ELSE h[b]]

Done(v, r) ==
  /\ heap' = Forget(r.h)
  /\ vec' = [vec EXCEPT ![v] = r.s]

\* vector()
Construct(v) ==
  /\ ~vec[v].alive
  /\ vec' = [vec EXCEPT ![v] = EmptyVec]
  /\ UNCHANGED heap

CopyConstruct(v, src, ft) ==
  /\ ~vec[v].alive /\ vec[src].alive
  /\ Done(v, copy_construct(heap, vec[src], ft.f, ft.oom))

Destroy(v) ==
  /\ vec[v].alive
  /\ heap' = Forget(destroy(heap, vec[v]))
  /\ vec' = [vec EXCEPT ![v] = NoObject]

CopyAssign(v, src, ft) ==
  /\ vec[v].alive /\ vec[src].alive
  /\ Done(v, copy_assign(heap, vec, v, src, ft.f, ft.oom))

Swap(v, rhs) ==
  /\ vec[v].alive /\ vec[rhs].alive
  /\ vec' = swap(vec, v, rhs)
  /\ UNCHANGED heap

PushBack(v, value, ft) ==
  /\ vec[v].alive /\ vec[v].sz < MaxSize
  /\ Done(v, push_back(heap, vec[v], value, ft.f, ft.oom))

PopBack(v) ==
  /\ vec[v].alive
  /\ Done(v, pop_back(heap, vec[v]))

Clear(v) ==
  /\ vec[v].alive
  /\ Done(v, clear(heap, vec[v]))

Insert(v, ind, value, ft) ==
  /\ vec[v].alive /\ vec[v].sz < MaxSize
  /\ Done(v, insert(heap, vec[v], v, ind, value, ft.f, ft.oom, ft.w))

InsertIt(v, pos, value, ft) ==
  /\ vec[v].alive /\ vec[v].sz < MaxSize
  /\ Done(v, insert_it(heap, vec[v], v, pos, value, ft.f, ft.oom, ft.w))

Erase(v, ind, ft) ==
  /\ vec[v].alive
  /\ Done(v, erase_ind(heap, vec[v], v, ind, ft.f, ft.w))

EraseIt(v, pos, ft) ==
  /\ vec[v].alive
  /\ Done(v, erase(heap, vec[v], v, pos, ft.f, ft.w))

\* v.at(pos) = value: nothing is written when at throws
Store(v, pos, value) ==
  /\ vec[v].alive
  /\ heap' = IF at(heap, vec[v], pos).res = "ok"
             THEN store(heap, at(heap, vec[v], pos).ref, value)
             ELSE heap
  /\ UNCHANGED vec

\* the copy constructions of T in push_back / insert on s: the elements moved
\* to a grown buffer, then the new last element
NCopies(s) == (IF s.sz + 1 > s.cap THEN s.sz ELSE 0) + 1

\* T's copy constructor and raw_alloc may throw; T's assignment does not
Next ==
  \/ \E v \in Vecs : Construct(v)
  \/ \E v \in Vecs, src \in Vecs : \E ft \in CtorFaults(vec[src].sz) : CopyConstruct(v, src, ft)
  \/ \E v \in Vecs : Destroy(v)
  \/ \E v \in Vecs, src \in Vecs : \E ft \in CtorFaults(vec[src].sz) : CopyAssign(v, src, ft)
  \/ \E v \in Vecs, rhs \in Vecs : Swap(v, rhs)
  \/ \E v \in Vecs, x \in Values : \E ft \in CtorFaults(NCopies(vec[v])) : PushBack(v, x, ft)
  \/ \E v \in Vecs : PopBack(v)
  \/ \E v \in Vecs : Clear(v)
  \/ \E v \in Vecs, i \in Positions, x \in Values :
        \E ft \in CtorFaults(NCopies(vec[v])) : Insert(v, i, x, ft)
  \/ \E v \in Vecs, x \in Values : \E pos \in Cursors : InsertIt(v, pos, x, NoFault)
  \/ \E v \in Vecs, i \in Positions : Erase(v, i, NoFault)
  \/ \E v \in Vecs : \E pos \in Cursors : EraseIt(v, pos, NoFault)
  \/ \E v \in Vecs, i \in Positions, x \in Values : Store(v, i, x)

Spec == Init /\ [][Next]_vars

\* T's assignment may throw as well, in the shifts of insert and erase
InsertThrows(v, ind, value, ft) == Insert(v, ind, value, ft)
EraseThrows(v, ind, ft) == Erase(v, ind, ft)

NextT ==
  \/ Next
  \/ \E v \in Vecs, i \in Positions, x \in Values :
        \E ft \in AssignFaults(NCopies(vec[v]), vec[v].sz - i) : InsertThrows(v, i, x, ft)
  \/ \E v \in Vecs, i \in Positions :
        \E ft \in AssignFaults(0, vec[v].sz - 1 - i) : EraseThrows(v, i, ft)

SpecT == Init /\ [][NextT]_vars

\* ------------------------------------------------------- properties
\* the elements of a vector, in order
Contents(h, s) == [i \in 1..s.sz |-> Slot(h, s.data, i - 1)]

\* a call that left heap and vector as they were
Same(r, s) == r.h = heap /\ r.s = s

\* every fault that can strike push_back on s, insert at i, erase at i, or a
\* copy of s (insert at i performs sz_ - i assignments, erase sz_ - 1 - i)
PushFaults(s) == CtorFaults(NCopies(s))
InsertFaults(s, i) == Faults(NCopies(s), s.sz - i)
EraseFaults(s, i) == {NoFault} \cup AssignFaults(0, s.sz - 1 - i)
CopyFaults(s) == CtorFaults(s.sz)
CanGrow == {v \in Alive : vec[v].sz < MaxSize}

RECURSIVE IsPow2(_)
IsPow2(n) == n = 1 \/ (n > 1 /\ n % 2 = 0 /\ IsPow2(n \div 2))

\* C1: in every state between operations, failed operations included,
\* 0 <= sz_ <= cap_ holds of every vector.
C1_SizeWithinCap == \A v \in Vecs : 0 <= vec[v].sz /\ vec[v].sz <= vec[v].cap

\* an insert has failed in its shift (it left a live slot at index sz_), and
\* the other vector is a full copy
C1_Witness ==
  \E v \in Alive, u \in Alive :
    /\ vec[v].sz >= 1 /\ vec[v].sz < vec[v].cap
    /\ Slot(heap, vec[v].data, vec[v].sz) # RAW
    /\ u # v /\ vec[u].sz = vec[u].cap /\ vec[u].cap = MaxSize

\* C2: without failures of T the vector refines a list: push_back appends,
\* insert(i, v) puts v at i and moves the suffix right, erase(i) removes i and
\* moves the suffix left, pop_back drops the last, clear empties; size() is
\* the list's length and at(i) its i-th value.
InsertAt(l, i, x) == SubSeq(l, 1, i) \o <<x>> \o SubSeq(l, i + 1, Len(l))
RemoveAt(l, i) == SubSeq(l, 1, i) \o SubSeq(l, i + 2, Len(l))

C2_RefinesList ==
  \A v \in Alive :
    LET s == vec[v]
        l == Contents(heap, s)
    IN /\ Len(l) = s.sz
       /\ \A i \in 0..(s.sz - 1) :
            at(heap, s, i).res = "ok" /\ at(heap, s, i).ref.val = l[i + 1]
       /\ \A x \in Values :
            v \in CanGrow =>
              LET r == push_back(heap, s, x, -1, FALSE)
              IN r.res = "ok" /\ Contents(r.h, r.s) = Append(l, x)
       /\ \A x \in Values, i \in 0..s.sz :
            v \in CanGrow =>
              LET r == insert(heap, s, v, i, x, -1, FALSE, FALSE)
              IN r.res = "ok" /\ Contents(r.h, r.s) = InsertAt(l, i, x)
       /\ \A i \in 0..(s.sz - 1) :
            LET r == erase_ind(heap, s, v, i, -1, FALSE)
            IN r.res = "ok" /\ Contents(r.h, r.s) = RemoveAt(l, i)
       /\ s.sz > 0 =>
            LET r == pop_back(heap, s)
            IN r.res = "ok" /\ Contents(r.h, r.s) = SubSeq(l, 1, s.sz - 1)
       /\ Contents(clear(heap, s).h, clear(heap, s).s) = <<>>

\* a vector holding <<1, 2>> in a full buffer, where insert(0, 2) grows the
\* buffer and shifts both elements
C2_Witness ==
  \E v \in Alive :
    /\ Contents(heap, vec[v]) = <<1, 2>> /\ vec[v].cap = 2
    /\ Contents(insert(heap, vec[v], v, 0, 2, -1, FALSE, FALSE).h,
                insert(heap, vec[v], v, 0, 2, -1, FALSE, FALSE).s) = <<2, 1, 2>>

\* C3 (as stated): in every reachable state cap_ is zero or a power of two.
C3_CapPowerOfTwo == \A v \in Vecs : vec[v].cap = 0 \/ IsPow2(vec[v].cap)

\* C3 (amended): only copy construction, copy assignment, or a swap can take
\* a vector's cap_ from zero or a power of two to another value; push_back,
\* insert, erase, pop_back, clear and failed calls never do.
CapRegular(c) == c = 0 \/ IsPow2(c)

C3_OnlyCopyBreaksPowerOfTwo ==
  [][\A v \in Vecs :
       (CapRegular(vec[v].cap) /\ ~CapRegular(vec'[v].cap)) =>
          \/ \E src \in Vecs : \E ft \in CtorFaults(vec[src].sz) :
                CopyConstruct(v, src, ft) \/ CopyAssign(v, src, ft)
          \/ \E rhs \in Vecs : Swap(v, rhs) \/ Swap(rhs, v)]_vars

\* a copy of a three-element vector: cap_ = 3
C3_Witness ==
  \E v \in Alive, u \in Alive :
    /\ vec[v].cap = 3 /\ vec[v].sz = 3
    /\ vec[u].cap = 4 /\ Contents(heap, vec[u]) = Contents(heap, vec[v])

\* the call needs a buffer it does not have yet
NeedsRealloc(s) == s.sz + 1 > s.cap
Reallocating == {v \in CanGrow : NeedsRealloc(vec[v])}

\* C4 (as stated): a push_back, insert, copy construction or copy assignment
\* that fails on an operation of T, at any point of a call that reallocates,
\* leaves size, capacity, buffer and elements as before the call.
C4_StrongOnRealloc ==
  /\ \A v \in Reallocating, x \in Values : \A ft \in PushFaults(vec[v]) :
       LET r == push_back(heap, vec[v], x, ft.f, ft.oom)
       IN r.res = "T_error" => Same(r, vec[v])
  /\ \A v \in Reallocating, i \in Positions, x \in Values : \A ft \in InsertFaults(vec[v], i) :
       LET r == insert(heap, vec[v], v, i, x, ft.f, ft.oom, ft.w)
       IN r.res = "T_error" => Same(r, vec[v])
  /\ \A src \in Alive : \A ft \in CopyFaults(vec[src]) :
       LET r == copy_construct(heap, vec[src], ft.f, ft.oom)
       IN r.res = "T_error" => (r.h = heap /\ r.s = NoObject)
  /\ \A v \in Alive, src \in Alive : \A ft \in CopyFaults(vec[src]) :
       LET r == copy_assign(heap, vec, v, src, ft.f, ft.oom)
       IN r.res = "T_error" => Same(r, vec[v])

\* C4 (amended): the pre-call state is retained when the failure happens
\* while the elements are copied into the newly allocated buffer (growth in
\* push_back and insert, the copy of copy construction and copy assignment).
\* A push_back or insert that fails after its growth has completed keeps the
\* size but has the new buffer and the grown capacity; push_back then still
\* holds the same elements.
C4_StrongWhileCopying ==
  /\ \A v \in Reallocating, x \in Values : \A ft \in PushFaults(vec[v]) :
       LET s == vec[v]
           r == push_back(heap, s, x, ft.f, ft.oom)
       IN /\ (r.res = "T_error" /\ ~r.grew) => Same(r, s)
          /\ (r.res = "T_error" /\ r.grew) =>
               /\ ft.f = s.sz
               /\ r.s.sz = s.sz /\ r.s.cap > s.cap /\ r.s.data # s.data
               /\ Contents(r.h, r.s) = Contents(heap, s)
  /\ \A v \in Reallocating, i \in Positions, x \in Values : \A ft \in InsertFaults(vec[v], i) :
       LET s == vec[v]
           r == insert(heap, s, v, i, x, ft.f, ft.oom, ft.w)
       IN /\ (r.res = "T_error" /\ ~r.grew) => Same(r, s)
          /\ (r.res = "T_error" /\ r.grew) =>
               /\ ft.f >= s.sz
               /\ r.s.sz = s.sz /\ r.s.cap > s.cap /\ r.s.data # s.data
               /\ ft.f = s.sz => Contents(r.h, r.s) = Contents(heap, s)
  /\ \A src \in Alive : \A ft \in CopyFaults(vec[src]) :
       LET r == copy_construct(heap, vec[src], ft.f, ft.oom)
       IN r.res = "T_error" => (r.h = heap /\ r.s = NoObject)
  /\ \A v \in Alive, src \in Alive : \A ft \in CopyFaults(vec[src]) :
       LET r == copy_assign(heap, vec, v, src, ft.f, ft.oom)
       IN r.res = "T_error" => Same(r, vec[v])

\* a full two-element vector: push_back fails in the copy of element 1 into
\* the new buffer, and fails after the growth when the new element is built
C4_Witness ==
  \E v \in Alive :
    /\ vec[v].sz = 2 /\ vec[v].cap = 2
    /\ push_back(heap, vec[v], 1, 1, FALSE).res = "T_error"
    /\ ~push_back(heap, vec[v], 1, 1, FALSE).grew
    /\ push_back(heap, vec[v], 1, 2, FALSE).res = "T_error"
    /\ push_back(heap, vec[v], 1, 2, FALSE).grew

\* C5: at, operator[], front, back and pop_back fail exactly when their
\* precondition is violated (pos >= sz_: index_out_of_bound; sz_ = 0:
\* container_is_empty), a failing pop_back changes nothing, and at(i) and
\* operator[](i) name the same slot for i < sz_.
C5_AccessorPreconditions ==
  \A v \in Alive :
    LET s == vec[v]
    IN /\ \A pos \in Positions :
            /\ at(heap, s, pos).res = (IF pos >= s.sz THEN "index_out_of_bound" ELSE "ok")
            /\ subscript(heap, s, pos).res
                 = (IF pos >= s.sz THEN "index_out_of_bound" ELSE "ok")
            /\ pos < s.sz =>
                 /\ at(heap, s, pos).ref = subscript(heap, s, pos).ref
                 /\ at(heap, s, pos).ref.buf = s.data
                 /\ at(heap, s, pos).ref.idx = pos
       /\ front(heap, s).res = (IF s.sz = 0 THEN "container_is_empty" ELSE "ok")
       /\ back(heap, s).res = (IF s.sz = 0 THEN "container_is_empty" ELSE "ok")
       /\ pop_back(heap, s).res = (IF s.sz = 0 THEN "container_is_empty" ELSE "ok")
       /\ s.sz = 0 => Same(pop_back(heap, s), s)

\* an emptied vector that still has its buffer (front, back and pop_back
\* fail), beside one with elements, where at(sz_) fails and at(sz_ - 1) does not
C5_Witness ==
  \E v \in Alive, u \in Alive :
    /\ vec[v].sz = 0 /\ vec[v].cap > 0
    /\ pop_back(heap, vec[v]).res = "container_is_empty"
    /\ front(heap, vec[v]).res = "container_is_empty"
    /\ vec[u].sz = 2
    /\ at(heap, vec[u], 2).res = "index_out_of_bound"
    /\ subscript(heap, vec[u], 1).res = "ok"

\* every cursor value over the existing vectors, and iterator()
AllCursors == {NoIt} \cup {advance(begin(vec, v), n) : v \in Alive, n \in 0..(SizeMod - 1)}

\* C6: insert(ind, v) fails with index_out_of_bound exactly when ind > sz_,
\* and then nothing has changed, whatever would have failed later (no growth
\* before the check); insert(pos, v) fails with invalid_iterator exactly when
\* pos.owner is not this vector, changing nothing, and otherwise is
\* insert(pos.idx, v), failures of T included, so end() is accepted.
C6_InsertPreconditions ==
  \A v \in CanGrow, x \in Values :
    LET s == vec[v]
    IN /\ \A i \in 0..(SizeMod - 1) : \A ft \in InsertFaults(s, i) :
            LET r == insert(heap, s, v, i, x, ft.f, ft.oom, ft.w)
                q == insert_it(heap, s, v, iterator(v, i), x, ft.f, ft.oom, ft.w)
            IN /\ (r.res = "index_out_of_bound") <=> (i > s.sz)
               /\ i > s.sz => Same(r, s)
               /\ q.res # "invalid_iterator" /\ q = r
       /\ \A pos \in AllCursors : \A ft \in InsertFaults(s, pos.idx) :
            pos.owner # v =>
              LET q == insert_it(heap, s, v, pos, x, ft.f, ft.oom, ft.w)
              IN q.res = "invalid_iterator" /\ Same(q, s)
       /\ insert_it(heap, s, v, end(vec, v), x, -1, FALSE, FALSE).res = "ok"

\* a full vector and another vector: insert(sz_ + 1) fails before any growth,
\* a cursor of the other vector is refused, end() is accepted
C6_Witness ==
  \E v \in CanGrow, u \in Alive :
    /\ u # v /\ vec[v].sz = 2 /\ vec[v].cap = 2
    /\ insert(heap, vec[v], v, 3, 1, -1, FALSE, FALSE).res = "index_out_of_bound"
    /\ insert_it(heap, vec[v], v, begin(vec, u), 1, -1, FALSE, FALSE).res = "invalid_iterator"
    /\ insert_it(heap, vec[v], v, end(vec, v), 1, -1, FALSE, FALSE).s.sz = 3

\* C7 (as stated): erase(ind) fails with index_out_of_bound exactly when
\* ind >= sz_; erase(pos) fails with invalid_iterator exactly when pos.owner is
\* not this vector or pos.idx >= sz_, and otherwise is erase(pos.idx); every
\* failing erase leaves size, capacity and elements unchanged.
C7_FailingEraseChangesNothing ==
  \A v \in Alive :
    LET s == vec[v]
    IN /\ \A i \in Positions : \A ft \in EraseFaults(s, i) :
            LET r == erase_ind(heap, s, v, i, ft.f, ft.w)
            IN /\ (r.res = "index_out_of_bound") <=> (i >= s.sz)
               /\ r.res # "ok" => Same(r, s)
       /\ \A pos \in AllCursors : \A ft \in EraseFaults(s, pos.idx) :
            LET r == erase(heap, s, v, pos, ft.f, ft.w)
            IN /\ (r.res = "invalid_iterator") <=> (pos.owner # v \/ pos.idx >= s.sz)
               /\ (pos.owner = v /\ pos.idx < s.sz) =>
                    r = erase_ind(heap, s, v, pos.idx, ft.f, ft.w)
               /\ r.res # "ok" => Same(r, s)

\* C7 (amended): the same, except that only an erase failing with
\* index_out_of_bound or invalid_iterator leaves everything unchanged; an
\* erase that fails because an assignment of T throws in the left shift keeps
\* size, capacity and buffer, and the elements before the erased index.
C7_ErasePreconditions ==
  \A v \in Alive :
    LET s == vec[v]
    IN /\ \A i \in Positions : \A ft \in EraseFaults(s, i) :
            LET r == erase_ind(heap, s, v, i, ft.f, ft.w)
            IN /\ (r.res = "index_out_of_bound") <=> (i >= s.sz)
               /\ r.res = "index_out_of_bound" => Same(r, s)
               /\ r.res = "T_error" =>
                    /\ r.s = s
                    /\ SubSeq(Contents(r.h, r.s), 1, i) = SubSeq(Contents(heap, s), 1, i)
       /\ \A pos \in AllCursors : \A ft \in EraseFaults(s, pos.idx) :
            LET r == erase(heap, s, v, pos, ft.f, ft.w)
            IN /\ (r.res = "invalid_iterator") <=> (pos.owner # v \/ pos.idx >= s.sz)
               /\ r.res = "invalid_iterator" => Same(r, s)
               /\ (pos.owner = v /\ pos.idx < s.sz) =>
                    r = erase_ind(heap, s, v, pos.idx, ft.f, ft.w)

\* a vector <<1, 2, 2>>: erase(end()) and erase(3) are refused, and erase(0)
\* whose second assignment throws leaves <<2, 2, 2>> with sz_ = 3
C7_Witness ==
  \E v \in Alive :
    /\ Contents(heap, vec[v]) = <<1, 2, 2>>
    /\ erase(heap, vec[v], v, end(vec, v), -1, FALSE).res = "invalid_iterator"
    /\ erase_ind(heap, vec[v], v, 3, -1, FALSE).res = "index_out_of_bound"
    /\ erase_ind(heap, vec[v], v, 0, 1, FALSE).res = "T_error"
    /\ Contents(erase_ind(heap, vec[v], v, 0, 1, FALSE).h,
                erase_ind(heap, vec[v], v, 0, 1, FALSE).s) = <<2, 2, 2>>

\* the vectors after a call on v
After(v, r) == [vec EXCEPT ![v] = r.s]

\* C8: a successful insert(i, x) returns a cursor of this vector at index i
\* that dereferences to x; a successful erase(i) returns a cursor of this
\* vector at index i, which dereferences to the element that followed
\* position i, or is end() when the last element was erased.
C8_ReturnedCursor ==
  \A v \in Alive :
    LET s == vec[v]
    IN /\ \A i \in 0..s.sz, x \in Values :
            v \in CanGrow =>
              LET r == insert(heap, s, v, i, x, -1, FALSE, FALSE)
                  d == deref(r.h, After(v, r), r.it)
              IN /\ r.res = "ok"
                 /\ r.it.owner = v /\ r.it.idx = i
                 /\ d.res = "ok" /\ d.ref.val = x
       /\ \A i \in 0..(s.sz - 1) :
            LET r == erase_ind(heap, s, v, i, -1, FALSE)
                d == deref(r.h, After(v, r), r.it)
            IN /\ r.res = "ok"
               /\ r.it.owner = v /\ r.it.idx = i
               /\ i < s.sz - 1 => (d.res = "ok" /\ d.ref.val = Slot(heap, s.data, i + 1))
               /\ i = s.sz - 1 =>
                    (equal(r.it, end(After(v, r), v)) /\ d.res = "invalid_iterator")

\* the vector <<1, 2, 1>>: erase(0) returns a cursor to the former second
\* element, erase(2) returns end()
C8_Witness ==
  \E v \in Alive :
    /\ Contents(heap, vec[v]) = <<1, 2, 1>>
    /\ deref(erase_ind(heap, vec[v], v, 0, -1, FALSE).h,
             After(v, erase_ind(heap, vec[v], v, 0, -1, FALSE)),
             erase_ind(heap, vec[v], v, 0, -1, FALSE).it).ref.val = 2
    /\ erase_ind(heap, vec[v], v, 2, -1, FALSE).it = iterator(v, 2)

\* what *it must be in the state (h, vs)
DerefAsClaimed(h, vs, it) ==
  LET d == deref(h, vs, it)
  IN IF it.owner = NoVec THEN d.res = "invalid_iterator"
     ELSE IF it.idx >= vs[it.owner].sz THEN d.res = "invalid_iterator"
     ELSE /\ d.res = "ok"
          /\ d.ref.val = Contents(h, vs[it.owner])[it.idx + 1]
          /\ d.ref = at(h, vs[it.owner], it.idx).ref

\* C9: whatever cursor is held on an existing vector or on none (any idx,
\* obtained in this or in any earlier state), dereferencing it now fails with
\* invalid_iterator exactly when it has no owner or its idx is >= the owner's
\* sz_ now, and otherwise yields the element now at idx; begin() moved back
\* and end() moved forward, idx wrapping as size_t does, are refused.
C9_DerefChecked ==
  /\ \A it \in AllCursors : DerefAsClaimed(heap, vec, it)
  /\ \A v \in Alive, n \in Steps :
       /\ n < 0 => deref(heap, vec, advance(begin(vec, v), n)).res = "invalid_iterator"
       /\ n > 0 => deref(heap, vec, advance(end(vec, v), n)).res = "invalid_iterator"
       /\ (n < 0 /\ vec[v].sz + n >= 0) =>
             /\ deref(heap, vec, advance(end(vec, v), n)).res = "ok"
             /\ deref(heap, vec, advance(end(vec, v), n)).ref.idx = vec[v].sz + n

\* a cursor to the last of three elements is held, the owner is now empty
\* with its buffer kept, and the other vector still has elements
C9_Witness ==
  \E v \in Alive, u \in Alive :
    /\ vec[v].sz = 0 /\ vec[v].cap = 4
    /\ deref(heap, vec, iterator(v, 2)).res = "invalid_iterator"
    /\ vec[u].sz = 3
    /\ deref(heap, vec, advance(end(vec, u), -1)).res = "ok"
    /\ deref(heap, vec, advance(begin(vec, u), -1)).res = "invalid_iterator"

\* C10 (as stated): after copy construction from a source, or copy assignment
\* of any source to a target, the target holds the source's elements in
\* order, in a buffer distinct from the source's, with cap_ = the source's sz_.
CopyOf(r, src) ==
  /\ r.res = "ok"
  /\ Contents(r.h, r.s) = Contents(heap, src)
  /\ (r.s.data = NULL \/ r.s.data # src.data)
  /\ r.s.cap = src.sz

C10_CopyIsExact ==
  /\ \A src \in Alive : CopyOf(copy_construct(heap, vec[src], -1, FALSE), vec[src])
  /\ \A v \in Alive, src \in Alive :
       CopyOf(copy_assign(heap, vec, v, src, -1, FALSE), vec[src])

\* C10 (amended): the same for copy construction and for copy assignment
\* from another vector, where the copy of an empty source has no buffer at
\* all (cap_ = 0, data_ null, even when the source's data_ is null too); the
\* target's buffer is a live one that no other vector holds, and the source
\* is untouched.  Assigning a vector to itself changes nothing: its capacity
\* stays what it was.
FreshCopyOf(v, r, src) ==
  /\ r.res = "ok"
  /\ Contents(r.h, r.s) = Contents(heap, src)
  /\ r.s.sz = src.sz /\ r.s.cap = src.sz
  /\ src.sz = 0 => r.s.data = NULL
  /\ src.sz > 0 =>
       /\ r.s.data # NULL /\ r.h[r.s.data].live
       /\ \A u \in Alive \ {v} : vec[u].data # r.s.data
  /\ src.data # NULL => r.h[src.data] = heap[src.data]

C10_CopyIsExactUnlessSelf ==
  /\ \A v \in Vecs \ Alive, src \in Alive :
       FreshCopyOf(v, copy_construct(heap, vec[src], -1, FALSE), vec[src])
  /\ \A v \in Alive : \A src \in Alive \ {v} :
       FreshCopyOf(v, copy_assign(heap, vec, v, src, -1, FALSE), vec[src])
  /\ \A v \in Alive : Same(copy_assign(heap, vec, v, v, -1, FALSE), vec[v])

\* a three-element vector in a buffer of four, and its copy in a buffer of three
C10_Witness ==
  \E v \in Alive, u \in Alive :
    /\ vec[v].sz = 3 /\ vec[v].cap = 3
    /\ vec[u].sz = 3 /\ vec[u].cap = 4
    /\ vec[u].data # vec[v].data
    /\ Contents(heap, vec[u]) = Contents(heap, vec[v])
    /\ FreshCopyOf(v, copy_assign(heap, vec, v, u, -1, FALSE), vec[u])

\* the heaps that one mutating call on v can leave: push_back, insert, erase,
\* pop_back, clear, and a write through at, operator[] or a cursor, with
\* every failure
MutationsOf(v) ==
  LET s == vec[v]
  IN {pop_back(heap, s).h, clear(heap, s).h}
     \cup {erase_ind(heap, s, v, i, ft.f, ft.w).h : i \in Positions, ft \in EraseFaults(s, 0)}
     \cup (IF s.sz < MaxSize
           THEN {push_back(heap, s, x, ft.f, ft.oom).h : x \in Values, ft \in PushFaults(s)}
                \cup {insert(heap, s, v, i, x, ft.f, ft.oom, ft.w).h :
                        i \in Positions, x \in Values, ft \in InsertFaults(s, 0)}
           ELSE {})
     \cup {store(heap, at(heap, s, i).ref, x) : i \in 0..(s.sz - 1), x \in Values}
     \cup {store(heap, subscript(heap, s, i).ref, x) : i \in 0..(s.sz - 1), x \in Values}
     \cup {store(heap, deref(heap, vec, iterator(v, i)).ref, x) :
             i \in 0..(s.sz - 1), x \in Values}

\* C11: whatever mutating call is made on one vector (push_back, insert,
\* erase, pop_back, clear, a write through at, operator[] or a cursor, failing
\* or not), every other vector keeps its buffer's elements, so its size and
\* contents; in particular a copy and its source, in either direction.
C11_CopyIndependence ==
  \A v \in Alive : \A u \in Alive \ {v} : \A h2 \in MutationsOf(v) :
    /\ vec[u].data # NULL => h2[vec[u].data] = heap[vec[u].data]
    /\ Contents(h2, vec[u]) = Contents(heap, vec[u])

\* the copy (cap_ = 3) of <<1, 2, 1>> has lost its last element and had its
\* first overwritten, the source still holds <<1, 2, 1>>
C11_Witness ==
  \E v \in Alive, u \in Alive :
    /\ vec[v].cap = 3 /\ Contents(heap, vec[v]) = <<2, 2>>
    /\ vec[u].cap = 4 /\ Contents(heap, vec[u]) = <<1, 2, 1>>

\* C12: a copy assignment that fails because the copy of some element of the
\* source throws (or because no buffer can be had) leaves the whole heap and
\* the target's data_, sz_ and cap_ as before: the target's elements, the
\* source's elements, and no buffer more or less; it fails exactly when the
\* source is another vector and one of its sz_ copies throws.
C12_FailedAssignKeepsTarget ==
  \A v \in Alive, src \in Alive : \A ft \in CopyFaults(vec[src]) :
    LET r == copy_assign(heap, vec, v, src, ft.f, ft.oom)
    IN /\ (r.res = "T_error") <=> (v # src /\ ft.f \in 0..(vec[src].sz - 1))
       /\ r.res # "ok" =>
            /\ r.s = vec[v]
            /\ r.h = heap
            /\ Contents(r.h, r.s) = Contents(heap, vec[v])
            /\ Contents(r.h, vec[src]) = Contents(heap, vec[src])

\* a target <<1>> and a source <<2, 2, 2>>: the copy of the source's last
\* element throws
C12_Witness ==
  \E v \in Alive, src \in Alive :
    /\ Contents(heap, vec[v]) = <<1>> /\ Contents(heap, vec[src]) = <<2, 2, 2>>
    /\ copy_assign(heap, vec, v, src, 2, FALSE).res = "T_error"
    /\ copy_assign(heap, vec, v, src, 2, FALSE).s = vec[v]
    /\ copy_assign(heap, vec, v, src, -1, FALSE).s.sz = 3

\* C13: a.swap(b) gives a the data_, sz_ and cap_ that b had and b those that
\* a had, touches no element and no other vector, and does the same as
\* b.swap(a); done twice it restores both vectors, buffers and elements
\* included; a.swap(a) changes nothing.  swap performs no operation that can
\* throw.
C13_SwapInvolution ==
  \A a \in Alive, b \in Alive :
    LET once == swap(vec, a, b)
        twice == swap(once, a, b)
    IN /\ once[a] = vec[b] /\ once[b] = vec[a]
       /\ \A c \in Vecs \ {a, b} : once[c] = vec[c]
       /\ Contents(heap, once[a]) = Contents(heap, vec[b])
       /\ Contents(heap, once[b]) = Contents(heap, vec[a])
       /\ once = swap(vec, b, a)
       /\ twice = vec
       /\ a = b => once = vec

\* <<1, 2, 1>> in a buffer of four and <<2>> in a buffer of three (what is
\* left of a copy): swap exchanges them, and a self-swap keeps them
C13_Witness ==
  \E a \in Alive, b \in Alive :
    /\ vec[a].cap = 4 /\ Contents(heap, vec[a]) = <<1, 2, 1>>
    /\ vec[b].cap = 3 /\ Contents(heap, vec[b]) = <<2>>
    /\ swap(vec, a, b)[a].cap = 3 /\ swap(vec, a, b)[b].sz = 3
    /\ swap(vec, a, a) = vec

\* the cursors of a: a.begin() moved to every idx (a.end() is one of them)
CursorsOf(a) == {advance(begin(vec, a), n) : n \in 0..(SizeMod - 1)}

\* C14: a cursor obtained from a before a.swap(b) has owner a afterwards: it
\* is equal exactly to the cursors of a at the same idx, those obtained after
\* the swap included, and dereferencing it after the swap fails with
\* invalid_iterator when its idx >= the sz_ a has now (the one b had), and
\* otherwise yields the slot at idx of the buffer a holds now (the one b had).
C14_CursorKeepsOwnerOverSwap ==
  \A a \in Alive, b \in Alive : \A it \in CursorsOf(a) :
    LET after == swap(vec, a, b)
        d == deref(heap, after, it)
    IN /\ it.owner = a
       /\ \A jt \in AllCursors \cup {end(after, a), end(after, b)} :
            equal(it, jt) <=> (jt.owner = a /\ jt.idx = it.idx)
       /\ (d.res = "invalid_iterator") <=> (it.idx >= vec[b].sz)
       /\ it.idx < vec[b].sz =>
            /\ d.res = "ok"
            /\ d.ref.buf = vec[b].data /\ d.ref.idx = it.idx
            /\ d.ref.val = Contents(heap, vec[b])[it.idx + 1]

\* a holds <<1, 2, 1>>, b holds <<2>>: after a.swap(b) the cursor a.begin()
\* reads 2 from the buffer that was b's, a.begin() + 2 is refused, and
\* a.begin() is not equal to b.begin()
C14_Witness ==
  \E a \in Alive, b \in Alive :
    /\ Contents(heap, vec[a]) = <<1, 2, 1>> /\ Contents(heap, vec[b]) = <<2>>
    /\ deref(heap, vec, begin(vec, a)).ref.val = 1
    /\ deref(heap, swap(vec, a, b), begin(vec, a)).ref.val = 2
    /\ deref(heap, swap(vec, a, b), begin(vec, a)).ref.buf = vec[b].data
    /\ deref(heap, vec, advance(begin(vec, a), 2)).res = "ok"
    /\ deref(heap, swap(vec, a, b), advance(begin(vec, a), 2)).res = "invalid_iterator"
    /\ ~equal(begin(vec, a), begin(vec, b))

\* C15: clear sets sz_ to 0, destroys the elements and leaves data_, cap_, the
\* buffer's allocation and every other buffer as they were; when cap_ >= 1
\* the push_back that follows succeeds in the same buffer with the same cap_
\* and without calling raw_alloc (it succeeds even when raw_alloc would throw).
C15_ClearKeepsBuffer ==
  \A v \in Alive :
    LET s == vec[v]
        c == clear(heap, s)
    IN /\ c.res = "ok" /\ c.s.sz = 0
       /\ c.s.data = s.data /\ c.s.cap = s.cap
       /\ \A b \in 1..NumBufs :
            IF b = s.data
            THEN /\ c.h[b].live /\ Len(c.h[b].slots) = Len(heap[b].slots)
                 /\ \A i \in 0..(s.sz - 1) : Slot(c.h, b, i) = RAW
            ELSE c.h[b] = heap[b]
       /\ s.cap >= 1 =>
            \A x \in Values : \A oom \in BOOLEAN :
              LET p == push_back(c.h, c.s, x, -1, oom)
              IN /\ p.res = "ok" /\ ~p.grew
                 /\ p.s.data = s.data /\ p.s.cap = s.cap /\ p.s.sz = 1
                 /\ Contents(p.h, p.s) = <<x>>
                 /\ \A b \in 1..NumBufs : p.h[b].live = heap[b].live

\* a vector of three elements in a buffer of four: after clear, push_back
\* needs no buffer; a vector with cap_ = 0 has to allocate
C15_Witness ==
  \E v \in Alive, u \in Alive :
    /\ vec[v].sz = 3 /\ vec[v].cap = 4
    /\ clear(heap, vec[v]).s.cap = 4
    /\ push_back(clear(heap, vec[v]).h, clear(heap, vec[v]).s, 1, -1, TRUE).res = "ok"
    /\ vec[u].cap = 0
    /\ push_back(clear(heap, vec[u]).h, clear(heap, vec[u]).s, 1, -1, TRUE).res = "bad_alloc"

\* slot i of the buffer of s holds a constructed element
Live(h, s, i) == Slot(h, s.data, i) # RAW

\* C16 (as stated): in every state between operations, failed operations
\* included (T's copy constructor or assignment threw during growth, in
\* push_back's construction or in insert's in-place shift), the buffer has
\* cap_ slots of which exactly those in [0, sz_) hold live elements.
C16_ExactlyLive ==
  \A v \in Alive :
    /\ vec[v].data # NULL => Len(heap[vec[v].data].slots) = vec[v].cap
    /\ \A i \in 0..(vec[v].cap - 1) : Live(heap, vec[v], i) <=> i < vec[v].sz

\* the element that a failed shift left at index sz_ has outlived clear():
\* the vector is empty and one of its slots is still live
C16_Witness ==
  \E v \in Alive :
    /\ vec[v].sz = 0 /\ vec[v].cap = 2
    /\ Live(heap, vec[v], 1)

\* C17: when ensure_capacity(sz_ + 1) has to grow and the copy of element i
\* into the new buffer throws, for every i < sz_: the exception leaves the
\* call, after i + 1 copies were attempted, and the heap is the heap before
\* the call, so that the new buffer is released with none of the i copies
\* left in it, and data_, sz_, cap_ and the elements are unchanged; push_back
\* and insert pass the exception on with nothing changed.
C17_GrowthFailureTornDown ==
  \A v \in Alive :
    LET s == vec[v]
    IN NeedsRealloc(s) =>
         \A i \in 0..(s.sz - 1) :
           LET e == ensure_capacity(heap, s, s.sz + 1, i, FALSE)
           IN /\ e.res = "T_error" /\ ~e.grew /\ e.used = i + 1
              /\ e.s = s
              /\ e.h = heap
              /\ \A b \in 1..NumBufs : e.h[b].misuse = "no"
              /\ Contents(e.h, e.s) = Contents(heap, s)
              /\ v \in CanGrow =>
                   \A x \in Values :
                     /\ push_back(heap, s, x, i, FALSE).res = "T_error"
                     /\ Same(push_back(heap, s, x, i, FALSE), s)
                     /\ \A j \in 0..s.sz :
                          /\ insert(heap, s, v, j, x, i, FALSE, FALSE).res = "T_error"
                          /\ Same(insert(heap, s, v, j, x, i, FALSE, FALSE), s)

\* a full buffer of three (a copy): growing it to six fails at the copy of
\* the last element, after two copies were made
C17_Witness ==
  \E v \in Alive :
    /\ vec[v].sz = 3 /\ vec[v].cap = 3
    /\ ensure_capacity(heap, vec[v], 4, 2, FALSE).res = "T_error"
    /\ ensure_capacity(heap, vec[v], 4, 2, FALSE).h = heap
    /\ ensure_capacity(heap, vec[v], 4, -1, FALSE).s.cap = 6

\* the vectors whose data_ is buffer b
OwnersOf(b) == {v \in Alive : vec[v].data = b}

\* C18: in every state between operations, whatever failed before (growth,
\* copy construction, copy assignment, a throwing assignment of T) and after
\* any swap or destruction: every allocated buffer is the data_ of exactly
\* one existing vector, whose cap_ is positive and is the buffer's length; a
\* vector's data_ is null exactly when its cap_ is 0 and otherwise names an
\* allocated buffer; and no buffer has been released while it was not
\* allocated.
C18_BufferOwnership ==
  /\ \A b \in 1..NumBufs :
       /\ heap[b].live =>
            /\ Cardinality(OwnersOf(b)) = 1
            /\ \A v \in OwnersOf(b) : vec[v].cap > 0 /\ Len(heap[b].slots) = vec[v].cap
       /\ heap[b].misuse # "double_free"
  /\ \A v \in Alive :
       /\ (vec[v].cap = 0) <=> (vec[v].data = NULL)
       /\ vec[v].data # NULL => heap[vec[v].data].live
  /\ \A v \in Vecs \ Alive : vec[v].data = NULL /\ vec[v].cap = 0

\* two vectors with a buffer each and one buffer not allocated: an assignment
\* between them that fails on its first copy gives the temporary's buffer
\* back, and destroying one of them releases its buffer, although a failed
\* shift of insert has left an element at its index sz_
C18_Witness ==
  \E v \in Alive, u \in Alive :
    /\ vec[v].data # NULL /\ vec[u].data # NULL /\ vec[v].data # vec[u].data
    /\ Cardinality({b \in 1..NumBufs : heap[b].live}) = 2
    /\ copy_assign(heap, vec, v, u, 0, FALSE).res = "T_error"
    /\ copy_assign(heap, vec, v, u, 0, FALSE).h = heap
    /\ ~destroy(heap, vec[v])[vec[v].data].live
    /\ vec[v].sz < vec[v].cap /\ Live(heap, vec[v], vec[v].sz)

RECURSIVE Pow2(_)
Pow2(k) == IF k = 0 THEN 1 ELSE 2 * Pow2(k - 1)

\* the doubling chain max(1, cap), 2 * max(1, cap), 4 * max(1, cap), ...
Chain(cap) == {(IF cap = 0 THEN 1 ELSE cap) * Pow2(k) : k \in 0..(MaxSize + 1)}
LeastOfChain(cap, need) ==
  CHOOSE c \in Chain(cap) : c >= need /\ \A d \in Chain(cap) : d >= need => c <= d

\* what a call that had to provide for `need` elements did to the buffer
Grown(s, r, need) ==
  IF need > s.cap
  THEN /\ r.grew /\ r.s.cap = LeastOfChain(s.cap, need)
       /\ r.s.data # s.data /\ r.s.data # NULL
       /\ Len(r.h[r.s.data].slots) = r.s.cap
  ELSE ~r.grew /\ r.s.cap = s.cap /\ r.s.data = s.data

\* n push_backs on an empty vector, each leaving the least power of two >= its
\* number as cap_
RECURSIVE PushBacksFrom(_, _, _)
PushBacksFrom(h, s, n) ==
  n = 0 \/ LET p == push_back(h, s, 1, -1, FALSE)
           IN /\ p.res = "ok" /\ p.s.sz = s.sz + 1
              /\ p.s.cap = LeastOfChain(0, p.s.sz)
              /\ PushBacksFrom(p.h, p.s, n - 1)

\* C19: a successful ensure_capacity(need) with need > cap_ moves the
\* elements to a new buffer whose length, the new cap_, is the least of
\* max(1, cap_), 2 * max(1, cap_), 4 * max(1, cap_), ... that is >= need;
\* with need <= cap_ it keeps buffer and cap_.  push_back and insert grow so
\* for need = sz_ + 1, and 2 * MaxSize push_backs on an empty vector leave
\* after the n-th the least power of two >= n as cap_.
C19_GrowthSchedule ==
  /\ \A v \in Alive :
       LET s == vec[v]
       IN /\ \A need \in 0..(2 * MaxSize + 2) :
               LET e == ensure_capacity(heap, s, need, -1, FALSE)
               IN e.res = "ok" /\ Grown(s, e, need) /\ e.s.sz = s.sz
                  /\ Contents(e.h, e.s) = Contents(heap, s)
          /\ \A x \in Values :
               /\ Grown(s, push_back(heap, s, x, -1, FALSE), s.sz + 1)
               /\ \A i \in 0..s.sz :
                    Grown(s, insert(heap, s, v, i, x, -1, FALSE, FALSE), s.sz + 1)
  /\ PushBacksFrom([b \in 1..NumBufs |-> FreeBuf], EmptyVec, 2 * MaxSize)

\* three push_backs have given cap_ = 4, and a full copy with cap_ = 3 grows
\* to 6 on its next push_back
C19_Witness ==
  \E v \in Alive, u \in Alive :
    /\ vec[v].sz = 3 /\ vec[v].cap = 4
    /\ vec[u].sz = 3 /\ vec[u].cap = 3
    /\ push_back(heap, vec[u], 1, -1, FALSE).s.cap = 6
    /\ push_back(heap, vec[v], 1, -1, FALSE).s.data = vec[v].data

\* the cursor (v, i) dereferences, once the call with outcome r on v has
\* returned, to the value it dereferenced to before
KeepsValue(v, i, r) ==
  LET c == iterator(v, i)
      d == deref(r.h, [vec EXCEPT ![v] = r.s], c)
  IN r.res = "ok" /\ d.res = "ok" /\ d.ref.val = deref(heap, vec, c).ref.val

\* C20: a cursor of v at index i dereferences to the same value after a
\* successful push_back on v (reallocating or not) when i < the old sz_,
\* after a successful insert or erase at j (by index or by cursor) when
\* i < j, and after a successful pop_back when i < the new sz_.
C20_CursorStableBelow ==
  \A v \in Alive :
    LET s == vec[v]
    IN \A i \in 0..(s.sz - 1) :
         /\ \A x \in Values :
              /\ KeepsValue(v, i, push_back(heap, s, x, -1, FALSE))
              /\ \A j \in (i + 1)..s.sz :
                   /\ KeepsValue(v, i, insert(heap, s, v, j, x, -1, FALSE, FALSE))
                   /\ KeepsValue(v, i, insert_it(heap, s, v, iterator(v, j), x, -1, FALSE, FALSE))
         /\ \A j \in (i + 1)..(s.sz - 1) :
              /\ KeepsValue(v, i, erase_ind(heap, s, v, j, -1, FALSE))
              /\ KeepsValue(v, i, erase(heap, s, v, iterator(v, j), -1, FALSE))
         /\ i < s.sz - 1 => KeepsValue(v, i, pop_back(heap, s))

\* a full vector 1, 2, 1: push_back moves the elements to another buffer and
\* erase(1) shifts the last element down, the cursor at 0 keeps its value
C20_Witness ==
  \E v \in Alive :
    /\ vec[v].sz = 3 /\ vec[v].cap = 3 /\ Contents(heap, vec[v]) = <<1, 2, 1>>
    /\ LET p == push_back(heap, vec[v], 2, -1, FALSE)
           e == erase_ind(heap, vec[v], v, 1, -1, FALSE)
       IN /\ p.grew /\ p.s.data # vec[v].data /\ KeepsValue(v, 0, p)
          /\ Contents(e.h, e.s) = <<1, 1>> /\ KeepsValue(v, 0, e)
====
